---- MODULE Spec2Model ----
(***************************************************************************)
(* A model of ts-mysql-analyzer: MySQLAnalyzer.analyze and the helpers it  *)
(* calls (getSchemaTable, getSchemaColumn, getCorrection, invalidAssignment*)
(* and missingIndex).  The statement splitter, the parser and the schema   *)
(* extractor are external: their results are the inputs of the model.      *)
(*                                                                         *)
(* Strings that the code compares, lower-cases or measures (table, column  *)
(* and alias names) are sequences of one-character strings.  A message is  *)
(* the sequence obtained by concatenating its literal parts (one element   *)
(* each) and the names spliced into it.                                    *)
(***************************************************************************)
EXTENDS Integers, Sequences, FiniteSets, TLC

VARIABLES
    schema,       \* this.schema: the analyzer's schema, or NoSchema
    pc,           \* position of the analyze call: "idle", "loop", "returned"
    textLength,   \* text.length for the text of the current call
    statements,   \* parser.splitStatements(text)
    idx,          \* number of statements the for loop has processed
    result,       \* parser.parse(statement.text) of the last processed statement
    before,       \* diagnostics.length when the last processed statement began
    diagnostics,  \* the diagnostics accumulated (and, once returned, the result)
    splitCalls,   \* calls of parser.splitStatements made by the current call
    parseCalls,   \* calls of parser.parse made by the current call
    probe         \* inputs and result of the helper applied last (helper specs)

vars == <<schema, pc, textLength, statements, idx, result, before, diagnostics,
          splitCalls, parseCalls, probe>>

----------------------------------------------------------------------------
(* Enumerations of src/src/index.ts *)

Warning == 0
Error == 1
Suggestion == 2

EmptyQuery == 1000
LexerError == 1001
ParserError == 1002
ColumnRowMismatch == 1003
MissingTable == 1004
MissingColumn == 1005
TypeMismatch == 1006
MissingIndex == 1007

----------------------------------------------------------------------------
(* JavaScript values *)

\* undefined / null where a name is expected (r.tableReference?.table of a
\* reference without table reference): a value no name is equal to.
Undefined == <<"undefined">>

\* String.prototype.toLowerCase, on the alphabet of the model.
ToLowerChar(c) ==
    CASE c = "A" -> "a"
      [] c = "B" -> "b"
      [] c = "C" -> "c"
      [] c = "D" -> "d"
      [] c = "I" -> "i"
      [] c = "N" -> "n"
      [] OTHER -> c

toLowerCase(s) == [i \in 1..Len(s) |-> ToLowerChar(s[i])]

Min2(a, b) == IF a <= b THEN a ELSE b

----------------------------------------------------------------------------
(* lib/autocorrect *)

\* The Levenshtein distance of the leven package.
RECURSIVE leven(_, _)
leven(a, b) ==
    IF Len(a) = 0 THEN Len(b)
    ELSE IF Len(b) = 0 THEN Len(a)
    ELSE Min2(Min2(leven(Tail(a), b) + 1, leven(a, Tail(b)) + 1),
              leven(Tail(a), Tail(b)) + (IF Head(a) = Head(b) THEN 0 ELSE 1))

\* The for loop of autocorrect from index i on, with the loop's variables
\* min (0 for null: !min holds of both) and bestWord (Undefined for null).
RECURSIVE autocorrectFrom(_, _, _, _, _)
autocorrectFrom(inputWord, words, i, min, bestWord) ==
    IF i > Len(words) THEN bestWord
    ELSE LET word == words[i]
             distance == leven(inputWord, word)
         IN  IF distance = 0 THEN word
             ELSE IF min = 0 \/ distance < min
                  THEN autocorrectFrom(inputWord, words, i + 1, distance, word)
                  ELSE autocorrectFrom(inputWord, words, i + 1, min, bestWord)

\* The loop keeping the latest of the words at the least distance.
RECURSIVE autocorrectFromLatest(_, _, _, _, _)
autocorrectFromLatest(inputWord, words, i, min, bestWord) ==
    IF i > Len(words) THEN bestWord
    ELSE LET word == words[i]
             distance == leven(inputWord, word)
         IN  IF distance = 0 THEN word
             ELSE IF min = 0 \/ distance <= min
                  THEN autocorrectFromLatest(inputWord, words, i + 1, distance, word)
                  ELSE autocorrectFromLatest(inputWord, words, i + 1, min, bestWord)

autocorrectLatest(inputWord, words) ==
    autocorrectFromLatest(inputWord, words, 1, 0, Undefined)

autocorrect(inputWord, words) == autocorrectFrom(inputWord, words, 1, 0, Undefined)

\* getCorrection suggesting only candidates at distance 1.
getCorrectionWithinDistance(word, words) ==
    LET correction == autocorrect(word, words)
    IN  IF correction = Undefined \/ correction = <<>> THEN <<>>
        ELSE IF correction = word THEN <<>>
        ELSE IF leven(word, correction) > 1 THEN <<>>
        ELSE correction

\* '' (the empty sequence) when there is no correction.
getCorrection(word, words) ==
    LET correction == autocorrect(word, words)
    IN  IF correction = Undefined \/ correction = <<>> THEN <<>>
        ELSE IF correction = word THEN <<>>
        ELSE correction

----------------------------------------------------------------------------
(* lib/get-schema-table, lib/get-schema-column *)

\* Array.prototype.find on a name field: the index of the first element whose
\* name is n, 0 when there is none.
RECURSIVE FindFrom(_, _, _)
FindFrom(names, n, i) ==
    IF i > Len(names) THEN 0
    ELSE IF names[i] = n THEN i
    ELSE FindFrom(names, n, i + 1)

Find(names, n) == FindFrom(names, n, 1)

Names(s) == [i \in 1..Len(s) |-> s[i].name]
Aliases(s) == [i \in 1..Len(s) |-> s[i].alias]

\* The lookup trying the alias before the declared name.
getSchemaTableAliasFirst(tableName, tables, aliasRefs) ==
    LET schemaTable == Find(Names(tables), tableName)
        tableAlias == Find(Aliases(aliasRefs), tableName)
    IN  IF tableAlias # 0 /\ Find(Names(tables), aliasRefs[tableAlias].table) # 0
        THEN Find(Names(tables), aliasRefs[tableAlias].table)
        ELSE schemaTable

\* The index in tables of the table found, 0 for null.
getSchemaTable(tableName, tables, aliasRefs) ==
    LET schemaTable == Find(Names(tables), tableName)
        tableAlias == Find(Aliases(aliasRefs), tableName)
    IN  IF schemaTable # 0 THEN schemaTable
        ELSE IF tableAlias # 0
             THEN Find(Names(tables), aliasRefs[tableAlias].table)
             ELSE 0

\* The index in schemaColumns of the column found, 0 for null.
getSchemaColumn(columnName, schemaColumns, aliasRefs) ==
    LET schemaColumn == Find(Names(schemaColumns), columnName)
        columnAlias == Find(Aliases(aliasRefs), columnName)
    IN  IF schemaColumn # 0 THEN schemaColumn
        ELSE IF columnAlias # 0
             THEN Find(Names(schemaColumns), aliasRefs[columnAlias].column)
             ELSE 0

----------------------------------------------------------------------------
(* lib/invalid-assignment, lib/missing-index *)

\* invalidAssignment taking every string for a date.
invalidAssignmentAnyString(schemaColumn, valueRef) ==
    IF valueRef.dataType = "null" /\ schemaColumn.optional THEN FALSE
    ELSE IF schemaColumn.tsType = "date"
         THEN valueRef.dataType # "date" /\ valueRef.dataType # "string"
         ELSE valueRef.dataType # schemaColumn.tsType

\* valueRef.parses models !isNaN(new Date(valueRef.value).getTime()).
invalidAssignment(schemaColumn, valueRef) ==
    IF valueRef.dataType = "null" /\ schemaColumn.optional THEN FALSE
    ELSE IF schemaColumn.tsType = "date"
         THEN LET invalid == valueRef.dataType # "date" /\ valueRef.dataType # "string"
                  invalidDateString == valueRef.dataType = "string" /\ ~valueRef.parses
              IN  invalid \/ invalidDateString
         ELSE valueRef.dataType # schemaColumn.tsType

\* schemaColumn.index = "" models index === null.
missingIndex(schemaColumn, valueRef) ==
    IF schemaColumn.sqlType = "json" THEN FALSE
    ELSE valueRef.context = "whereClause" /\ schemaColumn.index = ""

----------------------------------------------------------------------------
(* MySQLAnalyzer, src/src/index.ts *)

NoSchema == [defined |-> FALSE]

Diagnostic(severity, message, start, stop, code) ==
    [severity |-> severity, message |-> message, start |-> start,
     stop |-> stop, code |-> code]

RECURSIVE Flatten(_)
Flatten(ss) == IF ss = <<>> THEN <<>> ELSE Head(ss) \o Flatten(Tail(ss))

\* x || 0 for a number x that may be absent.
OrZero(present, x) == IF present /\ x # 0 THEN x ELSE 0

\* analyzeSyntax with the offending token's offsets not made relative to the
\* statement.
analyzeSyntaxTokenOffsets(statement, res) ==
    (IF res.lexerError.present
     THEN <<Diagnostic(Error, <<res.lexerError.message>>, statement.start,
                       statement.stop, LexerError)>>
     ELSE <<>>)
    \o
    (IF res.parserError.present
     THEN LET offendingToken == res.parserError.offendingToken
          IN  <<Diagnostic(Error, <<res.parserError.message>>,
                           OrZero(offendingToken.present, offendingToken.startIndex),
                           OrZero(offendingToken.present, offendingToken.stopIndex),
                           ParserError)>>
     ELSE <<>>)

analyzeSyntax(statement, res) ==
    (IF res.lexerError.present
     THEN <<Diagnostic(Error, <<res.lexerError.message>>, statement.start,
                       statement.stop, LexerError)>>
     ELSE <<>>)
    \o
    (IF res.parserError.present
     THEN LET offendingToken == res.parserError.offendingToken
          IN  <<Diagnostic(Error, <<res.parserError.message>>,
                           statement.start + OrZero(offendingToken.present, offendingToken.startIndex),
                           statement.start + OrZero(offendingToken.present, offendingToken.stopIndex),
                           ParserError)>>
     ELSE <<>>)

\* analyzeColumn reporting a type mismatch at the column reference, not at
\* the value.
analyzeColumnAtColumnRef(statement, schemaColumn, columnRef, valueRef) ==
    IF valueRef = <<>> THEN <<>>
    ELSE
        (IF invalidAssignment(schemaColumn, valueRef[1])
         THEN <<Diagnostic(Warning,
                           <<"Type ", valueRef[1].dataType, " is not assignable to type ",
                             schemaColumn.tsType, ".">>,
                           statement.start + columnRef.start,
                           statement.start + columnRef.stop, TypeMismatch)>>
         ELSE <<>>)
        \o
        (IF missingIndex(schemaColumn, valueRef[1])
         THEN <<Diagnostic(Suggestion,
                           <<"You can optimize this query by adding a MySQL index for column '">>
                               \o schemaColumn.name \o <<"'.">>,
                           statement.start + columnRef.start,
                           statement.start + columnRef.stop, MissingIndex)>>
         ELSE <<>>)

\* analyzeColumn reporting a missing index as a warning.
analyzeColumnIndexWarning(statement, schemaColumn, columnRef, valueRef) ==
    IF valueRef = <<>> THEN <<>>
    ELSE
        (IF invalidAssignment(schemaColumn, valueRef[1])
         THEN <<Diagnostic(Warning,
                           <<"Type ", valueRef[1].dataType, " is not assignable to type ",
                             schemaColumn.tsType, ".">>,
                           statement.start + valueRef[1].start,
                           statement.start + valueRef[1].stop, TypeMismatch)>>
         ELSE <<>>)
        \o
        (IF missingIndex(schemaColumn, valueRef[1])
         THEN <<Diagnostic(Warning,
                           <<"You can optimize this query by adding a MySQL index for column '">>
                               \o schemaColumn.name \o <<"'.">>,
                           statement.start + columnRef.start,
                           statement.start + columnRef.stop, MissingIndex)>>
         ELSE <<>>)

analyzeColumn(statement, schemaColumn, columnRef, valueRef) ==
    IF valueRef = <<>> THEN <<>>
    ELSE
        (IF invalidAssignment(schemaColumn, valueRef[1])
         THEN <<Diagnostic(Warning,
                           <<"Type ", valueRef[1].dataType, " is not assignable to type ",
                             schemaColumn.tsType, ".">>,
                           statement.start + valueRef[1].start,
                           statement.start + valueRef[1].stop, TypeMismatch)>>
         ELSE <<>>)
        \o
        (IF missingIndex(schemaColumn, valueRef[1])
         THEN <<Diagnostic(Suggestion,
                           <<"You can optimize this query by adding a MySQL index for column '">>
                               \o schemaColumn.name \o <<"'.">>,
                           statement.start + columnRef.start,
                           statement.start + columnRef.stop, MissingIndex)>>
         ELSE <<>>)

\* valueRefs.find(r => r.columnReference?.column === column): the value
\* reference found, as a sequence of length 1, or <<>> for undefined.
FindValueRef(valueRefs, column) ==
    LET i == Find([k \in 1..Len(valueRefs) |-> valueRefs[k].column], column)
    IN  IF i = 0 THEN <<>> ELSE <<valueRefs[i]>>

\* The message built from the column name as written, not lower-cased.
MissingColumnMessageAsWritten(column, schemaTable) ==
    LET columnNames == Names(schemaTable.columns)
        correction == getCorrection(column, columnNames)
    IN  <<"Column '">> \o column \o <<"' does not exist in table '">>
            \o schemaTable.name \o <<"'.">>
            \o (IF correction # <<>>
                THEN <<" Did you mean '">> \o correction \o <<"'?">>
                ELSE <<>>)

MissingColumnMessage(column, schemaTable) ==
    LET columnNames == Names(schemaTable.columns)
        correction == getCorrection(toLowerCase(column), columnNames)
    IN  <<"Column '">> \o column \o <<"' does not exist in table '">>
            \o schemaTable.name \o <<"'.">>
            \o (IF correction # <<>>
                THEN <<" Did you mean '">> \o correction \o <<"'?">>
                ELSE <<>>)

\* The loop body resolving the column by its declared name only.
analyzeColumnRefNoAlias(statement, schemaTable, columnRef, valueRefs, aliasRefs) ==
    LET schemaColumn == getSchemaColumn(columnRef.column, schemaTable.columns, <<>>)
    IN  IF schemaColumn # 0
        THEN analyzeColumn(statement, schemaTable.columns[schemaColumn], columnRef,
                           FindValueRef(valueRefs, columnRef.column))
        ELSE <<Diagnostic(Warning, MissingColumnMessage(columnRef.column, schemaTable),
                          statement.start + columnRef.start,
                          statement.start + columnRef.stop, MissingColumn)>>

\* The body of the for loop of analyzeColumns.
analyzeColumnRef(statement, schemaTable, columnRef, valueRefs, aliasRefs) ==
    LET schemaColumn == getSchemaColumn(columnRef.column, schemaTable.columns, aliasRefs)
    IN  IF schemaColumn # 0
        THEN analyzeColumn(statement, schemaTable.columns[schemaColumn], columnRef,
                           FindValueRef(valueRefs, columnRef.column))
        ELSE <<Diagnostic(Warning, MissingColumnMessage(columnRef.column, schemaTable),
                          statement.start + columnRef.start,
                          statement.start + columnRef.stop, MissingColumn)>>

analyzeColumns(statement, schemaTable, columnRefs, valueRefs, aliasRefs) ==
    Flatten([i \in 1..Len(columnRefs) |->
                analyzeColumnRef(statement, schemaTable, columnRefs[i], valueRefs, aliasRefs)])

\* The message built from the table name as written, not lower-cased.
MissingTableMessageAsWritten(sch, table) ==
    LET tableNames == Names(sch.tables)
        correction == getCorrection(table, tableNames)
    IN  <<"Table '">> \o table \o <<"' does not exist in database '">>
            \o sch.name \o <<"'.">>
            \o (IF correction # <<>>
                THEN <<" Did you mean '">> \o correction \o <<"'?">>
                ELSE <<>>)

MissingTableMessage(sch, table) ==
    LET tableNames == Names(sch.tables)
        correction == getCorrection(toLowerCase(table), tableNames)
    IN  <<"Table '">> \o table \o <<"' does not exist in database '">>
            \o sch.name \o <<"'.">>
            \o (IF correction # <<>>
                THEN <<" Did you mean '">> \o correction \o <<"'?">>
                ELSE <<>>)

\* The loop body going on to the columns of an unresolved table, against the
\* first table of the schema.
analyzeTableRefThenColumns(sch, statement, references, tableRef) ==
    LET table == tableRef.table
        schemaTable == getSchemaTable(table, sch.tables, references.aliasReferences)
        columnDiagnostics(t) ==
            analyzeColumns(statement, t,
                SelectSeq(references.columnReferences, LAMBDA r : r.table = table),
                SelectSeq(references.valueReferences, LAMBDA r : r.table = table),
                references.aliasReferences)
    IN  IF schemaTable # 0
        THEN columnDiagnostics(sch.tables[schemaTable])
        ELSE <<Diagnostic(Warning, MissingTableMessage(sch, table),
                          statement.start + tableRef.start,
                          statement.start + tableRef.stop, MissingTable)>>
             \o (IF sch.tables = <<>> THEN <<>> ELSE columnDiagnostics(sch.tables[1]))

\* The body of the for loop of analyzeTables.
analyzeTableRef(sch, statement, references, tableRef) ==
    LET table == tableRef.table
        schemaTable == getSchemaTable(table, sch.tables, references.aliasReferences)
    IN  IF schemaTable # 0
        THEN analyzeColumns(statement, sch.tables[schemaTable],
                 SelectSeq(references.columnReferences, LAMBDA r : r.table = table),
                 SelectSeq(references.valueReferences, LAMBDA r : r.table = table),
                 references.aliasReferences)
        ELSE <<Diagnostic(Warning, MissingTableMessage(sch, table),
                          statement.start + tableRef.start,
                          statement.start + tableRef.stop, MissingTable)>>

\* The table references taken from the last to the first.
analyzeTablesReversed(sch, statement, references) ==
    IF ~sch.defined THEN <<>>
    ELSE Flatten([i \in 1..Len(references.tableReferences) |->
                     analyzeTableRef(sch, statement, references,
                         references.tableReferences[Len(references.tableReferences) + 1 - i])])

analyzeTables(sch, statement, references) ==
    IF ~sch.defined THEN <<>>
    ELSE Flatten([i \in 1..Len(references.tableReferences) |->
                     analyzeTableRef(sch, statement, references, references.tableReferences[i])])

\* The column/row check comparing all column references with all value
\* references, whatever their context.
ColumnRowMismatchAnyContext(statement, res) ==
    IF res.queryType = "QtInsert"
    THEN IF Len(res.references.columnReferences) # Len(res.references.valueReferences)
         THEN <<Diagnostic(Warning, <<"Column count does not match row count.">>,
                           statement.start, statement.stop, ColumnRowMismatch)>>
         ELSE <<>>
    ELSE <<>>

\* The INSERT check of analyzeSemantics: index.ts lines 138-152.
ColumnRowMismatchDiagnostics(statement, res) ==
    IF res.queryType = "QtInsert"
    THEN LET fieldsClauseRefs ==
                 SelectSeq(res.references.columnReferences, LAMBDA r : r.context = "fieldsClause")
             valuesClauseValues ==
                 SelectSeq(res.references.valueReferences, LAMBDA r : r.context = "valuesClause")
         IN  IF Len(fieldsClauseRefs) # Len(valuesClauseValues)
             THEN <<Diagnostic(Warning, <<"Column count does not match row count.">>,
                               statement.start, statement.stop, ColumnRowMismatch)>>
             ELSE <<>>
    ELSE <<>>

\* analyzeSemantics without the early return for DDL statements.
analyzeSemanticsOfDDL(sch, statement, res) ==
    ColumnRowMismatchDiagnostics(statement, res)
    \o (IF ~sch.defined THEN <<>>
        ELSE analyzeTables(sch, statement, res.references))

\* analyzeSemantics comparing the counts for every query type.
analyzeSemanticsAnyQueryType(sch, statement, res) ==
    IF res.isDDL THEN <<>>
    ELSE ColumnRowMismatchDiagnostics(statement, [res EXCEPT !.queryType = "QtInsert"])
         \o (IF ~sch.defined THEN <<>>
             ELSE analyzeTables(sch, statement, res.references))

analyzeSemantics(sch, statement, res) ==
    IF res.isDDL THEN <<>>
    ELSE ColumnRowMismatchDiagnostics(statement, res)
         \o (IF ~sch.defined THEN <<>>
             ELSE analyzeTables(sch, statement, res.references))

----------------------------------------------------------------------------
(* Bounds and layout of the inputs *)

\* The splitter returns at most this many statements.
MaxStatements == 2

\* Characters per statement and per reference: statement i of a text spans
\* [(i-1)*StmtWidth, i*StmtWidth - 1]; inside a statement the column
\* references come first, then the table references, then the value
\* references, RefWidth characters each.
StmtWidth == 20
RefWidth == 2

Statement(i) == [start |-> (i - 1) * StmtWidth, stop |-> i * StmtWidth - 1]

Span(slot) == [start |-> (slot - 1) * RefWidth, stop |-> slot * RefWidth - 1]

\* The References of a parse result, from the written table names, the
\* column references [column, table, context], the value references
\* [dataType, parses, context, link] (link: the index of the column reference
\* the value is compared or assigned to, 0 for none) and the alias references
\* [alias, table, column].
References(tables, cols, vals, aliases) ==
    [tableReferences |->
        [j \in 1..Len(tables) |->
            [table |-> tables[j],
             start |-> Span(Len(cols) + j).start,
             stop |-> Span(Len(cols) + j).stop]],
     columnReferences |->
        [i \in 1..Len(cols) |->
            [column |-> cols[i].column, table |-> cols[i].table,
             context |-> cols[i].context,
             start |-> Span(i).start, stop |-> Span(i).stop]],
     valueReferences |->
        [k \in 1..Len(vals) |->
            [dataType |-> vals[k].dataType, parses |-> vals[k].parses,
             context |-> vals[k].context, link |-> vals[k].link,
             column |-> IF vals[k].link = 0 THEN Undefined ELSE cols[vals[k].link].column,
             table |-> IF vals[k].link = 0 THEN Undefined ELSE cols[vals[k].link].table,
             start |-> Span(Len(cols) + Len(tables) + k).start,
             stop |-> Span(Len(cols) + Len(tables) + k).stop]],
     aliasReferences |-> aliases]

Col(column, table, context) == [column |-> column, table |-> table, context |-> context]
Val(dataType, parses, context, link) ==
    [dataType |-> dataType, parses |-> parses, context |-> context, link |-> link]
Alias(alias, table, column) == [alias |-> alias, table |-> table, column |-> column]

----------------------------------------------------------------------------
(* Schemas *)

Column(name, tsType, sqlType, optional, index) ==
    [name |-> name, tsType |-> tsType, sqlType |-> sqlType,
     optional |-> optional, index |-> index]

TableAb ==
    [name |-> <<"a", "b">>,
     columns |-> << Column(<<"i", "d">>, "string", "varchar", FALSE, "PRI"),
                    Column(<<"n">>, "number", "int", TRUE, ""),
                    Column(<<"d">>, "date", "datetime", FALSE, "") >>]

TableCd ==
    [name |-> <<"c", "d">>,
     columns |-> << Column(<<"i", "d">>, "number", "int", FALSE, "PRI"),
                    Column(<<"j">>, "string", "json", TRUE, "") >>]

TestSchema == [defined |-> TRUE, name |-> <<"t", "e", "s", "t">>,
               tables |-> <<TableAb, TableCd>>]

EmptySchema == [defined |-> TRUE, name |-> <<"t", "e", "s", "t">>, tables |-> <<>>]

Schemas == {NoSchema, TestSchema, EmptySchema}

----------------------------------------------------------------------------
(* Parse results *)

NoToken == [present |-> FALSE, startIndex |-> 0, stopIndex |-> 0]
Token(a, b) == [present |-> TRUE, startIndex |-> a, stopIndex |-> b]

LexerErrors == { [present |-> FALSE, message |-> ""],
                 [present |-> TRUE, message |-> "Unfinished double quoted string literal"] }

ParserErrors ==
    { [present |-> FALSE, message |-> "", offendingToken |-> NoToken] }
    \cup { [present |-> TRUE, message |-> "Extraneous input", offendingToken |-> t] :
             t \in {NoToken, Token(0, 3), Token(5, 7)} }

NoLexerError == [present |-> FALSE, message |-> ""]
NoParserError == [present |-> FALSE, message |-> "", offendingToken |-> NoToken]

ParseResult(lexerError, parserError, isDDL, queryType, references) ==
    [lexerError |-> lexerError, parserError |-> parserError, isDDL |-> isDDL,
     queryType |-> queryType, references |-> references]

QueryTypes == {"QtSelect", "QtInsert"}

ab == <<"a", "b">>
cd == <<"c", "d">>
xy == <<"x", "y">>
id == <<"i", "d">>
zz == <<"z", "z">>

\* The references of the statements of the analyzer specification: one bundle
\* per kind of semantic diagnostic.
CoreReferences ==
    { References(<<>>, <<>>, <<>>, <<>>),
      \* SELECT * FROM ab WHERE id = 1
      References(<<ab>>, <<Col(id, ab, "whereClause")>>,
                 <<Val("number", FALSE, "whereClause", 1)>>, <<>>),
      \* INSERT INTO xy (zz) VALUES ()
      References(<<xy>>, <<Col(zz, xy, "fieldsClause")>>, <<>>, <<>>),
      \* INSERT INTO ab (zz, n) VALUES ('s', 2) / ... WHERE n = 2
      References(<<ab>>, <<Col(zz, ab, "fieldsClause"), Col(<<"n">>, ab, "whereClause")>>,
                 <<Val("string", FALSE, "valuesClause", 1),
                   Val("number", FALSE, "whereClause", 2)>>, <<>>) }

ParseResults ==
    { ParseResult(l, p, d, q, r) :
        l \in LexerErrors, p \in ParserErrors, d \in BOOLEAN, q \in QueryTypes,
        r \in CoreReferences }

NoResult == [none |-> TRUE]
NoProbe == [op |-> "none"]

----------------------------------------------------------------------------
(* The analyzer *)

Init ==
    /\ schema \in Schemas
    /\ pc = "idle"
    /\ textLength = 0
    /\ statements = <<>>
    /\ idx = 0
    /\ result = NoResult
    /\ before = 0
    /\ diagnostics = <<>>
    /\ splitCalls = 0
    /\ parseCalls = 0
    /\ probe = NoProbe

\* analyze('') falling through to the splitter and the loop.
AnalyzeEmptyFallsThrough ==
    /\ pc \in {"idle", "returned"}
    /\ textLength' = 0
    /\ diagnostics' = <<>>
    /\ pc' = "returned"
    /\ statements' = <<>>
    /\ idx' = 0
    /\ result' = NoResult
    /\ before' = 0
    /\ splitCalls' = 1
    /\ parseCalls' = 0
    /\ UNCHANGED <<schema, probe>>

\* analyze(''): index.ts lines 79-89.
AnalyzeEmpty ==
    /\ pc \in {"idle", "returned"}
    /\ textLength' = 0
    /\ diagnostics' = <<Diagnostic(Error, <<"MySQL query is empty.">>, 0, textLength', EmptyQuery)>>
    /\ pc' = "returned"
    /\ statements' = <<>>
    /\ idx' = 0
    /\ result' = NoResult
    /\ before' = 0
    /\ splitCalls' = 0
    /\ parseCalls' = 0
    /\ UNCHANGED <<schema, probe>>

\* analyze keeping the list of the previous call, as a field of the analyzer
\* would be kept.
AnalyzeSplitKeeping(maxStatements, maxLead) ==
    /\ pc \in {"idle", "returned"}
    /\ \E n \in 0..maxStatements, lead \in 0..maxLead :
        /\ textLength' = (lead + n) * StmtWidth + 1
        /\ statements' = [i \in 1..n |-> Statement(lead + i)]
    /\ diagnostics' = diagnostics
    /\ pc' = "loop"
    /\ idx' = 0
    /\ result' = NoResult
    /\ before' = 0
    /\ splitCalls' = 1
    /\ parseCalls' = 0
    /\ UNCHANGED <<schema, probe>>

\* analyze(text) for a non-empty text, up to the for loop: index.ts lines
\* 91-94.  The text splits into n statements (none for a text of blanks),
\* after lead blank stretches of the width of a statement.
AnalyzeSplit(maxStatements, maxLead) ==
    /\ pc \in {"idle", "returned"}
    /\ \E n \in 0..maxStatements, lead \in 0..maxLead :
        /\ textLength' = (lead + n) * StmtWidth + 1
        /\ statements' = [i \in 1..n |-> Statement(lead + i)]
    /\ diagnostics' = <<>>
    /\ pc' = "loop"
    /\ idx' = 0
    /\ result' = NoResult
    /\ before' = 0
    /\ splitCalls' = 1
    /\ parseCalls' = 0
    /\ UNCHANGED <<schema, probe>>

\* The iteration adding nothing once an earlier statement has reported a
\* lexer or parser error.
AnalyzeStatementUntilError(results) ==
    /\ pc = "loop"
    /\ idx < Len(statements)
    /\ \E r \in results :
        /\ result' = r
        /\ diagnostics' =
              IF \E i \in 1..Len(diagnostics) : diagnostics[i].severity = Error
              THEN diagnostics
              ELSE diagnostics \o analyzeSyntax(statements[idx + 1], r)
                               \o analyzeSemantics(schema, statements[idx + 1], r)
    /\ before' = Len(diagnostics)
    /\ idx' = idx + 1
    /\ parseCalls' = parseCalls + 1
    /\ UNCHANGED <<schema, pc, textLength, statements, splitCalls, probe>>

\* One iteration of the for loop: index.ts lines 95-99.
AnalyzeStatement(results) ==
    /\ pc = "loop"
    /\ idx < Len(statements)
    /\ \E r \in results :
        /\ result' = r
        /\ diagnostics' = diagnostics \o analyzeSyntax(statements[idx + 1], r)
                                      \o analyzeSemantics(schema, statements[idx + 1], r)
    /\ before' = Len(diagnostics)
    /\ idx' = idx + 1
    /\ parseCalls' = parseCalls + 1
    /\ UNCHANGED <<schema, pc, textLength, statements, splitCalls, probe>>

\* return diagnostics: index.ts line 101.
Return ==
    /\ pc = "loop"
    /\ idx = Len(statements)
    /\ pc' = "returned"
    /\ UNCHANGED <<schema, textLength, statements, idx, result, before, diagnostics,
                   splitCalls, parseCalls, probe>>

Next ==
    \/ AnalyzeEmpty
    \/ AnalyzeSplit(MaxStatements, 0)
    \/ AnalyzeStatement(ParseResults)
    \/ Return

Spec == Init /\ [][Next]_vars

----------------------------------------------------------------------------
(* Texts of one statement *)

\* The statement of a one-statement text starts after at most MaxLead blank
\* stretches.
MaxLead == 1

SeqsUpTo(S, n) == UNION {[1..k -> S] : k \in 0..n}

----------------------------------------------------------------------------
(* INSERT statements: the contexts of the column and value references *)

\* At most this many column references and this many value references.
MaxClauseRefs == 2

\* INSERT INTO ab (id, ..) VALUES (1, ..) / ... WHERE id = 1 ...: one column
\* reference per context in cc, one value reference per context in vc, the
\* k-th value linked to the k-th column reference when there is one.
InsertReferences ==
    { References(<<ab>>,
                 [i \in 1..Len(cc) |-> Col(id, ab, cc[i])],
                 [k \in 1..Len(vc) |->
                     Val("number", FALSE, vc[k], IF k <= Len(cc) THEN k ELSE 0)],
                 <<>>) :
        cc \in SeqsUpTo({"fieldsClause", "whereClause"}, MaxClauseRefs),
        vc \in SeqsUpTo({"valuesClause", "whereClause"}, MaxClauseRefs) }

InsertParseResults ==
    { ParseResult(l, NoParserError, d, q, r) :
        l \in LexerErrors, d \in BOOLEAN, q \in QueryTypes, r \in InsertReferences }

NextInsert ==
    \/ AnalyzeEmpty
    \/ AnalyzeSplit(1, MaxLead)
    \/ AnalyzeStatement(InsertParseResults)
    \/ Return

SpecInsert == Init /\ [][NextInsert]_vars

----------------------------------------------------------------------------
(* Table references *)

\* At most this many table references in a statement.
MaxTableRefs == 2

Ab == <<"A", "b">>
Id == <<"I", "d">>
nn == <<"n">>
tt == <<"t">>

\* Written table names: declared (ab, cd), declared but for the case (Ab),
\* sharing no character with a declared name (xy), and an alias (tt).
WrittenTables == {ab, cd, Ab, xy, tt}

\* The column written for every table of the statement: declared in both
\* tables (id), in ab only (nn), in none (zz), declared but for the case (Id).
WrittenColumns == {id, nn, zz, Id}

\* No alias; tt for the table ab; tt for an undeclared table; tt for a column
\* and then tt for the table ab.
TableAliases ==
    { <<>>,
      <<Alias(tt, ab, Undefined)>>,
      <<Alias(tt, xy, Undefined)>>,
      <<Alias(tt, Undefined, id), Alias(tt, ab, Undefined)>> }

\* SELECT * FROM t1, t2 WHERE t1.c = 1 AND t2.c = 1
TableReferences ==
    { References(ts,
                 [j \in 1..Len(ts) |-> Col(c, ts[j], "whereClause")],
                 [j \in 1..Len(ts) |-> Val("number", FALSE, "whereClause", j)],
                 al) :
        ts \in SeqsUpTo(WrittenTables, MaxTableRefs), c \in WrittenColumns,
        al \in TableAliases }

TableParseResults ==
    { ParseResult(NoLexerError, NoParserError, FALSE, "QtSelect", r) :
        r \in TableReferences }

NextTables ==
    \/ AnalyzeEmpty
    \/ AnalyzeSplit(1, MaxLead)
    \/ AnalyzeStatement(TableParseResults)
    \/ Return

SpecTables == Init /\ [][NextTables]_vars

----------------------------------------------------------------------------
(* Column references *)

\* At most this many column references in a statement.
MaxColumnRefs == 2

dd == <<"d">>
cc == <<"c">>

\* One table; two tables; the same table twice (a self-join).
ColumnTables == {<<ab>>, <<cd, ab>>, <<ab, ab>>}

\* A column reference and whether a number is compared to it.  Written
\* column names: id, nn and dd (declared in ab; id also in cd), zz (declared
\* nowhere) and cc (an alias).
ColumnSpecs ==
    { [column |-> c, table |-> t, valued |-> v] :
        c \in {id, nn, dd, zz, cc}, t \in {ab, cd}, v \in BOOLEAN }

ColumnAliases == { <<>>, <<Alias(cc, Undefined, id)>> }

\* The indices of the column references that have a value, in order.
Valued(cs) == SelectSeq([i \in 1..Len(cs) |-> i], LAMBDA i : cs[i].valued)

\* SELECT c1, c2 FROM ts WHERE c1 = 1 ...
ColumnReferences ==
    { References(ts,
                 [i \in 1..Len(cs) |-> Col(cs[i].column, cs[i].table, "whereClause")],
                 [k \in 1..Len(Valued(cs)) |->
                     Val("number", FALSE, "whereClause", Valued(cs)[k])],
                 al) :
        ts \in ColumnTables, cs \in SeqsUpTo(ColumnSpecs, MaxColumnRefs),
        al \in ColumnAliases }

ColumnParseResults ==
    { ParseResult(NoLexerError, NoParserError, FALSE, "QtSelect", r) :
        r \in ColumnReferences }

\* An analyzer constructed with the schema of the test database.
InitTestSchema == Init /\ schema = TestSchema

NextColumns ==
    \/ AnalyzeEmpty
    \/ AnalyzeSplit(1, MaxLead)
    \/ AnalyzeStatement(ColumnParseResults)
    \/ Return

SpecColumns == InitTestSchema /\ [][NextColumns]_vars

----------------------------------------------------------------------------
(* invalidAssignment and missingIndex applied to every column and value *)

TsDataTypes == {"string", "number", "boolean", "date"}

DataTypes == {"string", "number", "boolean", "date", "null"}

SchemaColumns ==
    { Column(id, t, q, o, x) :
        t \in TsDataTypes, q \in {"varchar", "json"}, o \in BOOLEAN, x \in {"", "PRI"} }

ValueReferences ==
    { [dataType |-> t, parses |-> b, context |-> c] :
        t \in DataTypes, b \in BOOLEAN, c \in {"whereClause", "valuesClause"} }

ApplyInvalidAssignment ==
    /\ \E c \in SchemaColumns, v \in ValueReferences :
         probe' = [op |-> "invalidAssignment", column |-> c, value |-> v,
                   out |-> invalidAssignment(c, v)]
    /\ UNCHANGED <<schema, pc, textLength, statements, idx, result, before,
                   diagnostics, splitCalls, parseCalls>>

ApplyMissingIndex ==
    /\ \E c \in SchemaColumns, v \in ValueReferences :
         probe' = [op |-> "missingIndex", column |-> c, value |-> v,
                   out |-> missingIndex(c, v)]
    /\ UNCHANGED <<schema, pc, textLength, statements, idx, result, before,
                   diagnostics, splitCalls, parseCalls>>

NextAssign == ApplyInvalidAssignment \/ ApplyMissingIndex

SpecAssign == InitTestSchema /\ [][NextAssign]_vars

----------------------------------------------------------------------------
(* Value references: the type and the context of the value of a column *)

\* At most this many column references, each with at most one value.
MaxValuedRefs == 2

\* ab joined with cd; ab joined with itself.
ValueTables == {<<ab, cd>>, <<ab, ab>>}

\* The written columns: id (string, primary key), n (number, optional, no
\* index) and d (date, no index) of ab.
ValueColumns == {<<id, ab>>, <<nn, ab>>, <<dd, ab>>}

NoValue == [dataType |-> "none", parses |-> FALSE, context |-> "none"]

\* What is compared or assigned to a column: nothing, or a value of an
\* inferred type; a string parses as a date or does not.
ValueKinds ==
    {NoValue}
    \cup { [dataType |-> t, parses |-> FALSE, context |-> "whereClause"] :
              t \in {"string", "number", "date", "null"} }
    \cup { [dataType |-> "string", parses |-> TRUE, context |-> "whereClause"],
           [dataType |-> "number", parses |-> FALSE, context |-> "valuesClause"] }

ValueSpecs == { [column |-> c[1], table |-> c[2], value |-> v] :
                  c \in ValueColumns, v \in ValueKinds }

\* The indices of the column references that have a value, in order.
WithValue(cs) == SelectSeq([i \in 1..Len(cs) |-> i], LAMBDA i : cs[i].value # NoValue)

\* SELECT ... FROM ts WHERE c1 = v1 OR c2 = v2 ...
ValuedReferences ==
    { References(ts,
                 [i \in 1..Len(cs) |-> Col(cs[i].column, cs[i].table, "whereClause")],
                 [k \in 1..Len(WithValue(cs)) |->
                     LET v == cs[WithValue(cs)[k]].value
                     IN  Val(v.dataType, v.parses, v.context, WithValue(cs)[k])],
                 <<>>) :
        ts \in ValueTables, cs \in SeqsUpTo(ValueSpecs, MaxValuedRefs) }

ValuedParseResults ==
    { ParseResult(NoLexerError, NoParserError, FALSE, "QtSelect", r) :
        r \in ValuedReferences }

NextValues ==
    \/ AnalyzeEmpty
    \/ AnalyzeSplit(1, MaxLead)
    \/ AnalyzeStatement(ValuedParseResults)
    \/ Return

SpecValues == InitTestSchema /\ [][NextValues]_vars

----------------------------------------------------------------------------
(* Repeated calls of analyze on one analyzer *)

RepeatParseResults ==
    { ParseResult(l, NoParserError, FALSE, q, r) :
        l \in LexerErrors, q \in QueryTypes, r \in CoreReferences }

\* The text of the call and what the deterministic splitter and parser make
\* of it.
Text == [length |-> textLength, statements |-> statements, result |-> result]

\* const diagnostics = analyzer.analyze(text): the caller keeps the list the
\* call returned, and the analyzer is ready for the next call.
KeepDiagnostics ==
    /\ pc = "returned"
    /\ probe' = [op |-> "analyze", text |-> Text, out |-> diagnostics]
    /\ pc' = "idle"
    /\ UNCHANGED <<schema, textLength, statements, idx, result, before, diagnostics,
                   splitCalls, parseCalls>>

NextRepeat ==
    \/ AnalyzeEmpty
    \/ AnalyzeSplit(1, MaxLead)
    \/ AnalyzeStatement(RepeatParseResults)
    \/ Return
    \/ KeepDiagnostics

SpecRepeat == Init /\ [][NextRepeat]_vars

----------------------------------------------------------------------------
(* getCorrection applied to every word and list of candidates *)

\* The length of a word and the number of candidates, at most.
MaxWordLen == 2
MaxCandidates == 2

Letters == {"a", "b"}

\* The words, the empty one among them; the candidates are not empty.
Words == SeqsUpTo(Letters, MaxWordLen)
Candidates == Words \ {<<>>}

\* One call of getCorrection.
ApplyGetCorrection ==
    /\ probe = NoProbe
    /\ \E word \in Words, words \in SeqsUpTo(Candidates, MaxCandidates) :
         probe' = [op |-> "getCorrection", word |-> word, words |-> words,
                   out |-> getCorrection(word, words)]
    /\ UNCHANGED <<schema, pc, textLength, statements, idx, result, before,
                   diagnostics, splitCalls, parseCalls>>

NextCorrect == ApplyGetCorrection

SpecCorrect == InitTestSchema /\ [][NextCorrect]_vars

----------------------------------------------------------------------------
(* getSchemaTable and getSchemaColumn applied to names and alias references *)

\* At most this many alias references.
MaxAliases == 2

uu == <<"u">>

\* The names looked up: declared ones, and t and u, declared nowhere.
LookupTableNames == {ab, cd, tt, uu}
LookupColumnNames == {id, nn, tt, uu}

\* Alias references of tables (the alias is t, u or the declared name ab; the
\* table is declared or is u) and of columns (likewise, with id for ab).
LookupAliases ==
    { Alias(a, t, Undefined) : a \in {tt, uu, ab}, t \in {ab, cd, uu} }
    \cup { Alias(a, Undefined, c) : a \in {tt, uu, id}, c \in {id, nn, uu} }

\* One call of getSchemaTable, on the tables of the test schema or on none.
ApplyGetSchemaTable ==
    /\ probe = NoProbe
    /\ \E name \in LookupTableNames, tables \in {TestSchema.tables, EmptySchema.tables},
          aliasRefs \in SeqsUpTo(LookupAliases, MaxAliases) :
         probe' = [op |-> "getSchemaTable", name |-> name, entities |-> tables,
                   aliasRefs |-> aliasRefs,
                   out |-> getSchemaTable(name, tables, aliasRefs)]
    /\ UNCHANGED <<schema, pc, textLength, statements, idx, result, before,
                   diagnostics, splitCalls, parseCalls>>

\* One call of getSchemaColumn, on the columns of ab or on none.
ApplyGetSchemaColumn ==
    /\ probe = NoProbe
    /\ \E name \in LookupColumnNames, schemaColumns \in {TableAb.columns, <<>>},
          aliasRefs \in SeqsUpTo(LookupAliases, MaxAliases) :
         probe' = [op |-> "getSchemaColumn", name |-> name, entities |-> schemaColumns,
                   aliasRefs |-> aliasRefs,
                   out |-> getSchemaColumn(name, schemaColumns, aliasRefs)]
    /\ UNCHANGED <<schema, pc, textLength, statements, idx, result, before,
                   diagnostics, splitCalls, parseCalls>>

NextLookup == ApplyGetSchemaTable \/ ApplyGetSchemaColumn

SpecLookup == InitTestSchema /\ [][NextLookup]_vars

----------------------------------------------------------------------------
(* Texts of several statements with and without syntax errors *)

SequenceParseResults ==
    { ParseResult(l, p, FALSE, "QtSelect", r) :
        l \in LexerErrors, p \in ParserErrors, r \in CoreReferences }

NextSequence ==
    \/ AnalyzeEmpty
    \/ AnalyzeSplit(MaxStatements, 0)
    \/ AnalyzeStatement(SequenceParseResults)
    \/ Return

SpecSequence == Init /\ [][NextSequence]_vars

----------------------------------------------------------------------------
(* Vocabulary of the properties *)

\* The diagnostics the last processed statement contributed.
Last == SubSeq(diagnostics, before + 1, Len(diagnostics))

\* The statement processed last.
LastStatement == statements[idx]

Codes(s) == {s[i].code : i \in 1..Len(s)}

Count(s, code) == Cardinality({i \in 1..Len(s) : s[i].code = code})

Processed == pc \in {"loop", "returned"} /\ idx > 0

----------------------------------------------------------------------------
(* C1 *)

\* C1: analyze returns a list containing an EmptyQuery diagnostic iff the text
\* is empty; the list is then exactly one diagnostic (Error, 1000, 'MySQL
\* query is empty.', start 0, stop 0) and neither the splitter nor the parser
\* has been called.
C1_EmptyQuery ==
    pc = "returned" =>
        /\ (1000 \in Codes(diagnostics)) <=> (textLength = 0)
        /\ textLength = 0 =>
            /\ diagnostics = << [severity |-> Error,
                                 message |-> <<"MySQL query is empty.">>,
                                 start |-> 0, stop |-> 0, code |-> 1000] >>
            /\ splitCalls = 0
            /\ parseCalls = 0

\* The empty text has been analyzed by an analyzer that has a schema.
C1_Witness ==
    /\ pc = "returned"
    /\ textLength = 0
    /\ Len(diagnostics) = 1
    /\ schema.defined

----------------------------------------------------------------------------
(* C2 *)

Clean(r) ==
    ~r.lexerError.present /\ ~r.parserError.present /\ r.queryType # "QtInsert"

\* C2: without a schema every diagnostic has code EmptyQuery, LexerError,
\* ParserError or ColumnRowMismatch, whatever the references; and a non-empty
\* text whose statements have no lexer error, no parser error and are not
\* INSERTs yields the empty list: the list is empty when the loop starts, a
\* statement of that kind adds nothing to it, and it is returned as it is.
C2_NoSchema ==
    /\ [](~schema.defined => Codes(diagnostics) \subseteq {1000, 1001, 1002, 1003})
    /\ [][~schema.defined =>
            /\ (pc' = "loop" /\ idx' = 0) => diagnostics' = <<>>
            /\ (pc' = "loop" /\ idx' = idx + 1 /\ Clean(result')) => diagnostics' = diagnostics
            /\ (pc = "loop" /\ pc' = "returned") => diagnostics' = diagnostics]_vars

\* Two statements with table, column and value references, no syntax error
\* and no INSERT, analyzed without a schema: nothing is reported.
C2_Witness ==
    /\ ~schema.defined
    /\ pc = "returned"
    /\ idx = 2
    /\ Clean(result)
    /\ ~result.isDDL
    /\ Len(result.references.columnReferences) = 2
    /\ diagnostics = <<>>

----------------------------------------------------------------------------
(* C3 *)

\* C3: per statement, exactly one LexerError (Error, the lexer error's
\* message, the statement's span) iff the parse result has a lexer error, and
\* exactly one ParserError (Error, the offending token's offsets relative to
\* the statement's start, the statement's start when there is no offending
\* token) iff it has a parser error; the LexerError is the first diagnostic of
\* the statement and the ParserError follows it, before every other one.
C3_Syntax ==
    Processed =>
        LET st == LastStatement
            l == result.lexerError
            p == result.parserError
            tok == p.offendingToken
            k == IF l.present THEN 1 ELSE 0
            m == IF p.present THEN 1 ELSE 0
        IN  /\ Count(Last, 1001) = k
            /\ Count(Last, 1002) = m
            /\ Len(Last) >= k + m
            /\ l.present =>
                 Last[1] = [severity |-> Error, message |-> <<l.message>>,
                            start |-> st.start, stop |-> st.stop, code |-> 1001]
            /\ p.present =>
                 /\ Last[k + 1].severity = Error
                 /\ Last[k + 1].code = 1002
                 /\ Last[k + 1].start =
                        st.start + (IF tok.present THEN tok.startIndex ELSE 0)
                 /\ Last[k + 1].stop =
                        st.start + (IF tok.present THEN tok.stopIndex ELSE 0)

\* The second statement of a text has a lexer error, a parser error with an
\* offending token, and semantic diagnostics after them.
C3_Witness ==
    /\ Processed
    /\ idx = 2
    /\ result.lexerError.present
    /\ result.parserError.present
    /\ result.parserError.offendingToken.startIndex > 0
    /\ Len(Last) > 2
    /\ Last[1].code = 1001
    /\ Last[2].code = 1002

----------------------------------------------------------------------------
(* C5 *)

\* C5: a DDL statement contributes no ColumnRowMismatch, MissingTable,
\* MissingColumn, TypeMismatch or MissingIndex diagnostic, whatever its
\* references and the schema; its LexerError and ParserError are emitted.
C5_DDL ==
    (Processed /\ result.isDDL) =>
        /\ Codes(Last) \cap {1003, 1004, 1005, 1006, 1007} = {}
        /\ Count(Last, 1001) = (IF result.lexerError.present THEN 1 ELSE 0)
        /\ Count(Last, 1002) = (IF result.parserError.present THEN 1 ELSE 0)

\* A DDL statement classified INSERT, with a fields/values mismatch and an
\* undeclared table, analyzed with a schema: only its lexer error is reported.
C5_Witness ==
    /\ Processed
    /\ result.isDDL
    /\ schema.defined
    /\ result.queryType = "QtInsert"
    /\ Len(result.references.columnReferences) = 1
    /\ Len(result.references.valueReferences) = 0
    /\ result.lexerError.present
    /\ ~result.parserError.present
    /\ Len(Last) = 1
    /\ Last[1].code = 1001

----------------------------------------------------------------------------
(* C4 *)

InContext(refs, context) == {i \in 1..Len(refs) : refs[i].context = context}

----------------------------------------------------------------------------
(* C6 *)

\* The diagnostics of the last statement that have this code and the span of
\* the reference ref.
At(code, ref) ==
    {i \in 1..Len(Last) :
        /\ Last[i].code = code
        /\ Last[i].start = LastStatement.start + ref.start
        /\ Last[i].stop = LastStatement.start + ref.stop}

\* The table name resolves, by its declared name or one alias step.
ResolvedTable(name) ==
    getSchemaTable(name, schema.tables, result.references.aliasReferences) # 0

\* C6: with a schema, every table reference that does not resolve produces
\* exactly one MissingTable warning at its span (and a resolved one none), and
\* every MissingColumn, TypeMismatch and MissingIndex diagnostic belongs to a
\* column reference (for TypeMismatch: to the value linked to a column
\* reference) whose owning table name resolved.
C6_MissingTable ==
    (Processed /\ schema.defined /\ ~result.isDDL) =>
        LET refs == result.references
            tr == refs.tableReferences
            cr == refs.columnReferences
            vr == refs.valueReferences
        IN  /\ \A j \in 1..Len(tr) :
                 IF ResolvedTable(tr[j].table)
                 THEN At(1004, tr[j]) = {}
                 ELSE /\ Cardinality(At(1004, tr[j])) = 1
                      /\ \A i \in At(1004, tr[j]) : Last[i].severity = Warning
            /\ Count(Last, 1004) =
                 Cardinality({j \in 1..Len(tr) : ~ResolvedTable(tr[j].table)})
            /\ \A i \in 1..Len(Last) :
                 /\ Last[i].code \in {1005, 1007} =>
                      \E c \in 1..Len(cr) :
                          i \in At(Last[i].code, cr[c]) /\ ResolvedTable(cr[c].table)
                 /\ Last[i].code = 1006 =>
                      \E v \in 1..Len(vr) :
                          /\ i \in At(1006, vr[v])
                          /\ vr[v].link # 0
                          /\ ResolvedTable(cr[vr[v].link].table)

\* FROM xy, ab WHERE xy.id = 1 AND ab.id = 1: xy does not resolve and gets the
\* only MissingTable; ab resolves and its column gets a TypeMismatch.
C6_Witness ==
    /\ Processed
    /\ schema.defined
    /\ Len(result.references.tableReferences) = 2
    /\ result.references.tableReferences[1].table = xy
    /\ result.references.tableReferences[2].table = ab
    /\ result.references.columnReferences[1].column = id
    /\ Len(Last) = 2
    /\ Last[1].code = 1004
    /\ Last[2].code = 1006

----------------------------------------------------------------------------
(* C7 *)

DidYouMean(correction) ==
    IF correction = <<>> THEN <<>> ELSE <<" Did you mean '">> \o correction \o <<"'?">>

HasDidYouMean(message) == \E k \in 1..Len(message) : message[k] = " Did you mean '"

\* C7: the MissingTable message is "Table '<name>' does not exist in database
\* '<schema name>'." followed by " Did you mean '<c>'?" exactly when
\* getCorrection, given the lower-cased written name and the schema's table
\* names in schema order, returns a correction c; the MissingColumn message
\* is built the same way from the lower-cased column name and the column
\* names of the resolved table.
C7_Messages ==
    (Processed /\ schema.defined) =>
        LET refs == result.references
            tr == refs.tableReferences
            cr == refs.columnReferences
        IN  \A i \in 1..Len(Last) :
              /\ Last[i].code = 1004 =>
                   \E j \in 1..Len(tr) :
                     /\ i \in At(1004, tr[j])
                     /\ Last[i].message =
                          <<"Table '">> \o tr[j].table
                            \o <<"' does not exist in database '">> \o schema.name \o <<"'.">>
                            \o DidYouMean(getCorrection(toLowerCase(tr[j].table),
                                    [k \in 1..Len(schema.tables) |-> schema.tables[k].name]))
              /\ Last[i].code = 1005 =>
                   \E c \in 1..Len(cr) :
                     /\ i \in At(1005, cr[c])
                     /\ ResolvedTable(cr[c].table)
                     /\ LET t == schema.tables[getSchemaTable(cr[c].table, schema.tables,
                                                               refs.aliasReferences)]
                        IN  Last[i].message =
                              <<"Column '">> \o cr[c].column
                                \o <<"' does not exist in table '">> \o t.name \o <<"'.">>
                                \o DidYouMean(getCorrection(toLowerCase(cr[c].column),
                                        [k \in 1..Len(t.columns) |-> t.columns[k].name]))

\* A MissingTable message with a suggestion, followed by the MissingColumn
\* message of a column that is declared but for the case: no suggestion.
C7_Witness ==
    /\ Processed
    /\ schema.defined
    /\ Len(Last) = 2
    /\ Last[1].code = 1004
    /\ HasDidYouMean(Last[1].message)
    /\ Last[2].code = 1005
    /\ ~HasDidYouMean(Last[2].message)

----------------------------------------------------------------------------
(* C8 *)

Chars(name) == {name[k] : k \in 1..Len(name)}

TableNames == {schema.tables[k].name : k \in 1..Len(schema.tables)}

\* C8 as claimed: when the schema has tables and none of their names shares a
\* character with the written name, the MissingTable message has no
\* suggestion.
C8_Original ==
    (Processed /\ schema.defined /\ schema.tables # <<>>) =>
        \A j \in 1..Len(result.references.tableReferences) :
            LET ref == result.references.tableReferences[j]
            IN  (\A n \in TableNames : Chars(n) \cap Chars(toLowerCase(ref.table)) = {})
                    => \A i \in At(1004, ref) : ~HasDidYouMean(Last[i].message)

\* The index of the first table name at the least edit distance from word.
Nearest(word) ==
    CHOOSE k \in 1..Len(schema.tables) :
        /\ \A m \in 1..Len(schema.tables) :
             leven(word, schema.tables[k].name) <= leven(word, schema.tables[m].name)
        /\ \A m \in 1..(k - 1) :
             leven(word, schema.tables[m].name) > leven(word, schema.tables[k].name)

\* C8 amended: the MissingTable message carries a suggestion exactly when the
\* schema has a table and no table name equals the lower-cased written name;
\* the name suggested is the first table name at the least edit distance,
\* however large that distance is.
C8_Amended ==
    (Processed /\ schema.defined) =>
        \A j \in 1..Len(result.references.tableReferences) :
            LET ref == result.references.tableReferences[j]
                word == toLowerCase(ref.table)
                sentence == <<"Table '">> \o ref.table
                              \o <<"' does not exist in database '">> \o schema.name \o <<"'.">>
            IN  \A i \in At(1004, ref) :
                    IF schema.tables # <<>> /\ word \notin TableNames
                    THEN Last[i].message =
                            sentence \o <<" Did you mean '">>
                                     \o schema.tables[Nearest(word)].name \o <<"'?">>
                    ELSE Last[i].message = sentence

\* FROM xy: no table name shares a character with xy, both are at distance 2,
\* and the first one, ab, is suggested.
C8_Witness ==
    /\ Processed
    /\ schema.defined
    /\ Len(result.references.tableReferences) = 1
    /\ result.references.tableReferences[1].table = xy
    /\ Len(Last) = 1
    /\ Last[1].code = 1004
    /\ Last[1].message =
         <<"Table '", "x", "y", "' does not exist in database '", "t", "e", "s", "t", "'.",
           " Did you mean '", "a", "b", "'?">>

----------------------------------------------------------------------------
(* C9 *)

----------------------------------------------------------------------------
(* C10 *)

\* The assignments the rule allows.
ValidAssignment(inferred, declared, optional, parses) ==
    \/ inferred = "null" /\ optional
    \/ declared = "date" /\ (inferred = "date" \/ (inferred = "string" /\ parses))
    \/ declared # "date" /\ inferred = declared

\* C10: for every inferred type, declared type, optional flag and
\* date-parsability, invalidAssignment is false exactly when the inferred type
\* is null and the column optional, or the column is a date column and the
\* value a date or a string that parses as a date, or the column is not a date
\* column and the inferred type is the declared type.
C10_InvalidAssignment ==
    probe.op = "invalidAssignment" =>
        probe.out = ~ValidAssignment(probe.value.dataType, probe.column.tsType,
                                     probe.column.optional, probe.value.parses)

\* A string that does not parse as a date, for a date column that is not
\* optional: invalid.
C10_Witness ==
    /\ probe.op = "invalidAssignment"
    /\ probe.column.tsType = "date"
    /\ ~probe.column.optional
    /\ probe.value.dataType = "string"
    /\ ~probe.value.parses
    /\ probe.out = TRUE

----------------------------------------------------------------------------
(* C11 *)

\* The schema table a resolved table name stands for.
SchemaTableOf(name) ==
    schema.tables[getSchemaTable(name, schema.tables, result.references.aliasReferences)]

\* The column reference's table name resolves and is the name of a table
\* reference of the statement, and its column name resolves in that table.
ResolvedColumn(ref) ==
    /\ \E j \in 1..Len(result.references.tableReferences) :
          result.references.tableReferences[j].table = ref.table
    /\ ResolvedTable(ref.table)
    /\ getSchemaColumn(ref.column, SchemaTableOf(ref.table).columns,
                       result.references.aliasReferences) # 0

\* The schema column of a resolved column reference.
SchemaColumnOf(ref) ==
    SchemaTableOf(ref.table).columns[
        getSchemaColumn(ref.column, SchemaTableOf(ref.table).columns,
                        result.references.aliasReferences)]

\* The value reference checked with the column reference ref: the first value
\* reference of the statement linked to a column reference with the table
\* name and the column name of ref; 0 when there is none.
CheckedValue(ref) ==
    LET vr == result.references.valueReferences
        ks == {k \in 1..Len(vr) : vr[k].table = ref.table /\ vr[k].column = ref.column}
    IN  IF ks = {} THEN 0 ELSE CHOOSE k \in ks : \A m \in ks : k <= m

\* The checks of the value reference v: one per table reference and resolved
\* column reference owned by it that v is checked with.
Checks(v) ==
    LET tr == result.references.tableReferences
        cr == result.references.columnReferences
    IN  { ch \in (1..Len(tr)) \X (1..Len(cr)) :
            /\ cr[ch[2]].table = tr[ch[1]].table
            /\ ResolvedColumn(cr[ch[2]])
            /\ CheckedValue(cr[ch[2]]) = v }

TypeMismatchMessage(value, column) ==
    <<"Type ", value.dataType, " is not assignable to type ", column.tsType, ".">>

\* C11 as stated: every value reference linked to a resolved column of a
\* resolved table gets exactly one TypeMismatch warning, with the message and
\* at the value's span, when its inferred type differs from the declared type
\* and it is not null into an optional column, and none otherwise.
C11_Original ==
    (Processed /\ schema.defined /\ ~result.isDDL) =>
        LET cr == result.references.columnReferences
            vr == result.references.valueReferences
        IN  \A v \in 1..Len(vr) :
              (vr[v].link # 0 /\ ResolvedColumn(cr[vr[v].link])) =>
                LET column == SchemaColumnOf(cr[vr[v].link])
                IN  IF /\ vr[v].dataType # column.tsType
                       /\ ~(vr[v].dataType = "null" /\ column.optional)
                    THEN /\ Cardinality(At(1006, vr[v])) = 1
                         /\ \A i \in At(1006, vr[v]) :
                              /\ Last[i].severity = Warning
                              /\ Last[i].message = TypeMismatchMessage(vr[v], column)
                    ELSE At(1006, vr[v]) = {}

\* C11 (amended): each check of a value reference with a resolved column
\* reference emits exactly one TypeMismatch warning, with the message 'Type
\* <inferred> is not assignable to type <declared>.' and at the value's span,
\* when the assignment is invalid, and none when it is valid; it is valid when
\* the value is null and the column optional, when the column is a date column
\* and the value a date or a string that parses as a date, and when the column
\* is not a date column and the inferred type is the declared type.  The
\* TypeMismatch diagnostics at a value's span are those of its checks.
C11_TypeMismatch ==
    (Processed /\ schema.defined /\ ~result.isDDL) =>
        LET cr == result.references.columnReferences
            vr == result.references.valueReferences
            Invalid(v, ch) ==
                ~ValidAssignment(vr[v].dataType, SchemaColumnOf(cr[ch[2]]).tsType,
                                 SchemaColumnOf(cr[ch[2]]).optional, vr[v].parses)
        IN  \A v \in 1..Len(vr) :
              /\ Cardinality(At(1006, vr[v])) =
                    Cardinality({ch \in Checks(v) : Invalid(v, ch)})
              /\ \A i \in At(1006, vr[v]) :
                    /\ vr[v].link # 0
                    /\ Last[i].severity = Warning
                    /\ Last[i].message =
                          TypeMismatchMessage(vr[v], SchemaColumnOf(cr[vr[v].link]))

\* ... FROM ab, cd WHERE d = '2020-01-01' OR id = 1, in a statement that does
\* not start the text: the date string gets no TypeMismatch, the number
\* compared to the string column id gets the only one.
C11_Witness ==
    /\ Processed
    /\ LastStatement.start > 0
    /\ result.references.tableReferences[1].table = ab
    /\ result.references.tableReferences[2].table = cd
    /\ Len(result.references.columnReferences) = 2
    /\ result.references.columnReferences[1].column = dd
    /\ result.references.columnReferences[2].column = id
    /\ Len(result.references.valueReferences) = 2
    /\ result.references.valueReferences[1].dataType = "string"
    /\ result.references.valueReferences[1].parses
    /\ result.references.valueReferences[2].dataType = "number"
    /\ Count(Last, 1006) = 1
    /\ At(1006, result.references.valueReferences[2]) # {}
    /\ At(1006, result.references.valueReferences[1]) = {}

----------------------------------------------------------------------------
(* C12 *)

MissingIndexMessage(column) ==
    <<"You can optimize this query by adding a MySQL index for column '">>
        \o column.name \o <<"'.">>

\* C12: missingIndex(column, value) is true iff the value's context is
\* whereClause, the column has no index and its storage type is not JSON; a
\* resolved column reference with a linked value reference gets exactly one
\* MissingIndex suggestion, with the schema column's name in the message and
\* at the column reference's span, when missingIndex is true for them, and
\* none when it is false; a resolved column reference with no linked value
\* reference gets none.
C12_MissingIndex ==
    (Processed /\ schema.defined /\ ~result.isDDL) =>
        LET cr == result.references.columnReferences
            vr == result.references.valueReferences
        IN  \A c \in 1..Len(cr) : ResolvedColumn(cr[c]) =>
              LET column == SchemaColumnOf(cr[c])
                  linked == {v \in 1..Len(vr) : vr[v].link = c}
              IN  /\ linked = {} => At(1007, cr[c]) = {}
                  /\ \A v \in linked :
                       LET expected == /\ vr[v].context = "whereClause"
                                       /\ column.index = ""
                                       /\ column.sqlType # "json"
                       IN  /\ missingIndex(column, vr[v]) = expected
                           /\ Cardinality(At(1007, cr[c])) = (IF expected THEN 1 ELSE 0)
                           /\ \A i \in At(1007, cr[c]) :
                                /\ Last[i].severity = Suggestion
                                /\ Last[i].message = MissingIndexMessage(column)

\* SELECT n FROM ab, cd WHERE n = 1: the n of the select list has no value
\* linked to it and gets a MissingIndex suggestion all the same.
C12_Failing ==
    /\ Processed
    /\ result.references.tableReferences[1].table = ab
    /\ result.references.tableReferences[2].table = cd
    /\ Len(result.references.columnReferences) = 2
    /\ result.references.columnReferences[1].column = nn
    /\ result.references.columnReferences[2].column = nn
    /\ Len(result.references.valueReferences) = 1
    /\ result.references.valueReferences[1].link = 2
    /\ result.references.valueReferences[1].dataType = "number"
    /\ result.references.valueReferences[1].context = "whereClause"
    /\ At(1007, result.references.columnReferences[1]) # {}
    /\ Count(Last, 1007) = 2

----------------------------------------------------------------------------
(* C13 *)

\* The places in the traversal that can have emitted the diagnostic d of the
\* last statement: <<j, c, r>> for the table reference j, the column reference
\* c owned by it (0 for the table reference itself) and the rank r of the
\* diagnostic in the check of c (1 for MissingColumn and TypeMismatch, 2 for
\* MissingIndex).
Places(d) ==
    LET tr == result.references.tableReferences
        cr == result.references.columnReferences
        vr == result.references.valueReferences
        at(ref) == /\ d.start = LastStatement.start + ref.start
                   /\ d.stop = LastStatement.start + ref.stop
        owned == {p \in (1..Len(tr)) \X (1..Len(cr)) : cr[p[2]].table = tr[p[1]].table}
    IN  IF d.code = 1004
        THEN {<<j, 0, 0>> : j \in {j \in 1..Len(tr) : at(tr[j])}}
        ELSE IF d.code \in {1005, 1007}
        THEN {<<p[1], p[2], IF d.code = 1005 THEN 1 ELSE 2>> :
                 p \in {p \in owned : at(cr[p[2]])}}
        ELSE IF d.code = 1006
        THEN {<<p[1], p[2], 1>> :
                 p \in {p \in owned :
                           \E v \in 1..Len(vr) :
                               /\ at(vr[v])
                               /\ vr[v].table = cr[p[2]].table
                               /\ vr[v].column = cr[p[2]].column}}
        ELSE {}

NotAfter(a, b) ==
    \/ a[1] < b[1]
    \/ a[1] = b[1] /\ a[2] < b[2]
    \/ a[1] = b[1] /\ a[2] = b[2] /\ a[3] <= b[3]

----------------------------------------------------------------------------
(* C14 *)

\* The statements whose span holds the start of the diagnostic d.
Owners(d) ==
    {i \in 1..Len(statements) :
        statements[i].start <= d.start /\ d.start <= statements[i].stop}

\* C14: for a non-empty text the list is the concatenation, in the
\* splitter's order, of each statement's own diagnostics.  Every diagnostic
\* starts in a statement already processed and no diagnostic of a later
\* statement precedes one of an earlier statement; an iteration keeps what
\* the list held and appends the diagnostics of its statement, which are those
\* of the statement's parse result alone, whatever errors earlier statements
\* had; and the list is returned unchanged, after the last statement only.
C14_Concatenation ==
    /\ []((pc \in {"loop", "returned"} /\ textLength > 0) =>
            /\ \A i \in 1..Len(diagnostics) :
                   Owners(diagnostics[i]) # {} /\ Owners(diagnostics[i]) \subseteq 1..idx
            /\ \A i, k \in 1..Len(diagnostics) : i < k =>
                   \A a \in Owners(diagnostics[i]), b \in Owners(diagnostics[k]) : a <= b)
    /\ [][(pc = "loop" /\ idx' = idx + 1) =>
            /\ Len(diagnostics') >= Len(diagnostics)
            /\ SubSeq(diagnostics', 1, Len(diagnostics)) = diagnostics
            /\ SubSeq(diagnostics', Len(diagnostics) + 1, Len(diagnostics')) =
                  analyzeSyntax(statements[idx'], result')
                      \o analyzeSemantics(schema, statements[idx'], result')]_vars
    /\ [][(pc = "loop" /\ pc' = "returned") =>
            /\ diagnostics' = diagnostics
            /\ idx = Len(statements)
            /\ parseCalls = Len(statements)]_vars

\* Two statements: the first has a lexer error, the second has none and its
\* semantic diagnostic follows, at offsets inside the second statement.
C14_Witness ==
    /\ pc = "returned"
    /\ schema.defined
    /\ idx = 2
    /\ before >= 1
    /\ diagnostics[1].code = 1001
    /\ diagnostics[1].start = 0
    /\ ~result.lexerError.present
    /\ ~result.parserError.present
    /\ Last # <<>>
    /\ Last[1].code = 1006
    /\ Last[1].start >= StmtWidth

----------------------------------------------------------------------------
(* C15 *)

\* C15: a call of analyze that returns, made after the list of an earlier
\* call on the same analyzer was kept, whatever calls came in between, returns
\* a list equal to the kept one when its text is the same; and no step of
\* analyze changes the analyzer's schema.
C15_Repeatable ==
    /\ []((pc = "returned" /\ probe.op = "analyze" /\ probe.text = Text) =>
              diagnostics = probe.out)
    /\ [][schema' = schema]_vars

\* The second call on a text with a lexer error and a type mismatch returns
\* the two diagnostics the first call returned.
C15_Witness ==
    /\ pc = "returned"
    /\ probe.op = "analyze"
    /\ probe.text = Text
    /\ textLength > 0
    /\ Len(diagnostics) = 2
    /\ diagnostics[1].code = 1001
    /\ diagnostics[2].code = 1006
    /\ diagnostics = probe.out

----------------------------------------------------------------------------
(* C16 *)

\* C16: every diagnostic of the list has one of the eight codes 1000..1007,
\* and its severity is fixed by its code: Error for EmptyQuery (1000),
\* LexerError (1001) and ParserError (1002); Warning for ColumnRowMismatch
\* (1003), MissingTable (1004), MissingColumn (1005) and TypeMismatch (1006);
\* Suggestion for MissingIndex (1007).
C16_Severities ==
    \A i \in 1..Len(diagnostics) :
        /\ diagnostics[i].code \in 1000..1007
        /\ diagnostics[i].code \in {1000, 1001, 1002} => diagnostics[i].severity = Error
        /\ diagnostics[i].code \in {1003, 1004, 1005, 1006} => diagnostics[i].severity = Warning
        /\ diagnostics[i].code = 1007 => diagnostics[i].severity = Suggestion

\* A returned list of two statements with diagnostics of six codes and of
\* the three severities.
C16_Witness ==
    /\ pc = "returned"
    /\ idx = 2
    /\ {1001, 1002, 1003, 1004, 1005, 1007} \subseteq Codes(diagnostics)
    /\ {diagnostics[i].severity : i \in 1..Len(diagnostics)} = {Warning, Error, Suggestion}

----------------------------------------------------------------------------
(* C17 *)

\* C17: for candidates that are not empty strings, getCorrection returns no
\* correction (the empty string) iff there is no candidate or the word is one
\* of the candidates; otherwise it returns a candidate at the least
\* Levenshtein distance from the word, the earliest of the list among those
\* at that distance, which is not the word.
C17_GetCorrection ==
    probe.op = "getCorrection" =>
        LET word == probe.word
            words == probe.words
            out == probe.out
        IN  /\ (out = <<>>) <=>
                  (words = <<>> \/ \E i \in 1..Len(words) : words[i] = word)
            /\ out # <<>> =>
                  /\ out # word
                  /\ \E i \in 1..Len(words) :
                        /\ words[i] = out
                        /\ \A k \in 1..Len(words) :
                              leven(word, words[k]) >= leven(word, out)
                        /\ \A k \in 1..(i - 1) :
                              leven(word, words[k]) > leven(word, out)

\* For the word a and the candidates ab, ba, both at distance 1, the earlier
\* one is returned.
C17_Witness ==
    /\ probe.op = "getCorrection"
    /\ probe.word = <<"a">>
    /\ probe.words = << <<"a", "b">>, <<"b", "a">> >>
    /\ probe.out = <<"a", "b">>

----------------------------------------------------------------------------
(* C18 *)

\* A lookup has been made.
Lookup == probe.op \in {"getSchemaTable", "getSchemaColumn"}

\* The name an alias reference stands for in the lookup made: its table for
\* getSchemaTable, its column for getSchemaColumn.
Target(aliasRef) ==
    IF probe.op = "getSchemaTable" THEN aliasRef.table ELSE aliasRef.column

\* The entities declared under the name n.
Declared(n) == {i \in 1..Len(probe.entities) : probe.entities[i].name = n}

\* The alias references whose alias is the name looked up.
Named == {k \in 1..Len(probe.aliasRefs) : probe.aliasRefs[k].alias = probe.name}

\* C18: getSchemaTable and getSchemaColumn return the entity declared under
\* the name whenever there is one, whatever the alias references; they return
\* none when the name is not declared and no alias reference of that name
\* stands for a declared name; and an entity returned for a name that is not
\* declared is the one declared under the name that an alias reference of the
\* name stands for: one alias step, so that an alias of an alias resolves to
\* none.
C18_Lookup ==
    Lookup =>
        /\ Declared(probe.name) # {} => probe.out \in Declared(probe.name)
        /\ (/\ Declared(probe.name) = {}
            /\ \A k \in Named : Declared(Target(probe.aliasRefs[k])) = {}) => probe.out = 0
        /\ (Declared(probe.name) = {} /\ probe.out # 0) =>
              \E k \in Named : probe.out \in Declared(Target(probe.aliasRefs[k]))

\* t is an alias of u and u an alias of the table ab: t resolves to none.
C18_Witness ==
    /\ probe.op = "getSchemaTable"
    /\ probe.name = tt
    /\ probe.entities = TestSchema.tables
    /\ probe.aliasRefs = <<Alias(tt, uu, Undefined), Alias(uu, ab, Undefined)>>
    /\ probe.out = 0

----------------------------------------------------------------------------
(* C19 *)

\* C19: when nothing is declared under the name and some alias reference of
\* that name stands for a declared name, the lookup returns an entity declared
\* under a name that an alias reference of the name stands for, whatever the
\* number, the order and the kinds of the alias references.
C19_AliasLookup ==
    (/\ Lookup
     /\ Declared(probe.name) = {}
     /\ \E k \in Named : Declared(Target(probe.aliasRefs[k])) # {}) =>
        /\ probe.out # 0
        /\ \E k \in Named : probe.out \in Declared(Target(probe.aliasRefs[k]))

\* SELECT id AS t FROM ab t: the alias reference of the column comes first,
\* the table alias t stands for the declared table ab, and the lookup of the
\* table t returns none.
C19_Failing ==
    /\ probe.op = "getSchemaTable"
    /\ probe.name = tt
    /\ probe.entities = TestSchema.tables
    /\ probe.aliasRefs = <<Alias(tt, Undefined, id), Alias(tt, ab, Undefined)>>
    /\ probe.out = 0

----------------------------------------------------------------------------
(* C20 *)

\* C20: the value reference checked with a resolved column reference is the
\* one linked to that very column reference.  For a table written once among
\* the table references, every value reference linked to one of its resolved
\* column references is type-checked exactly once, against that column (one
\* TypeMismatch at the value's own span when the assignment is invalid, none
\* when it is valid), and index-checked exactly once (one MissingIndex at its
\* column reference's span when missingIndex holds of the column and the
\* value, none otherwise), also when another column reference of the table has
\* the same column name and a value of its own.
C20_OwnValue ==
    (Processed /\ schema.defined /\ ~result.isDDL) =>
        LET tr == result.references.tableReferences
            cr == result.references.columnReferences
            vr == result.references.valueReferences
        IN  \A v \in 1..Len(vr) :
              (/\ vr[v].link # 0
               /\ ResolvedColumn(cr[vr[v].link])
               /\ Cardinality({j \in 1..Len(tr) : tr[j].table = vr[v].table}) = 1) =>
                LET column == SchemaColumnOf(cr[vr[v].link])
                IN  /\ Cardinality(At(1006, vr[v])) =
                          (IF invalidAssignment(column, vr[v]) THEN 1 ELSE 0)
                    /\ Cardinality(At(1007, cr[vr[v].link])) =
                          (IF missingIndex(column, vr[v]) THEN 1 ELSE 0)

\* ... FROM ab, cd WHERE n = 1 OR n = 'x', n a number column: the string is
\* never checked and no TypeMismatch is reported.
C20_Failing ==
    /\ Processed
    /\ result.references.tableReferences[1].table = ab
    /\ result.references.tableReferences[2].table = cd
    /\ Len(result.references.columnReferences) = 2
    /\ result.references.columnReferences[1].column = nn
    /\ result.references.columnReferences[2].column = nn
    /\ Len(result.references.valueReferences) = 2
    /\ result.references.valueReferences[1].dataType = "number"
    /\ result.references.valueReferences[1].context = "whereClause"
    /\ result.references.valueReferences[2].dataType = "string"
    /\ result.references.valueReferences[2].link = 2
    /\ Count(Last, 1006) = 0
    /\ Count(Last, 1007) = 2

----------------------------------------------------------------------------
(* C21 *)

\* C21: the list never holds two diagnostics with the same code, start and
\* stop, also when a table name is written more than once among the table
\* references of a statement: the column references of that table are
\* analyzed once.
C21_NoDuplicates ==
    \A i, k \in 1..Len(diagnostics) :
        (/\ i < k
         /\ diagnostics[i].code = diagnostics[k].code
         /\ diagnostics[i].start = diagnostics[k].start) =>
            diagnostics[i].stop # diagnostics[k].stop

\* SELECT zz FROM ab, ab: the one column reference zz, declared nowhere, is
\* reported twice, with the same MissingColumn diagnostic.
C21_Failing ==
    /\ pc = "returned"
    /\ idx = 1
    /\ Len(result.references.tableReferences) = 2
    /\ result.references.tableReferences[1].table = ab
    /\ result.references.tableReferences[2].table = ab
    /\ Len(result.references.columnReferences) = 1
    /\ result.references.columnReferences[1].column = zz
    /\ result.references.columnReferences[1].table = ab
    /\ Len(diagnostics) = 2
    /\ diagnostics[1].code = 1005
    /\ diagnostics[1] = diagnostics[2]

----------------------------------------------------------------------------
(* C22 *)

\* No alias reference of the statement has this alias.
NoAlias(name) ==
    \A k \in 1..Len(result.references.aliasReferences) :
        result.references.aliasReferences[k].alias # name

\* C22: resolution is case-sensitive and the correction is sought for the
\* lower-cased name.  A table reference (no alias having its name) whose
\* written name is not a declared table name while its lower-cased form is
\* one gets one MissingTable warning at its span, whose message is "Table
\* '<name>' does not exist in database '<schema name>'." with no 'Did you
\* mean' suffix; a column reference owned by a resolved table reference whose
\* written name is not a column name of the table while its lower-cased form
\* is one is reported as MissingColumn at its span, with the message "Column
\* '<name>' does not exist in table '<table name>'." and no suffix.
C22_CaseSensitive ==
    (Processed /\ schema.defined /\ ~result.isDDL) =>
        LET tr == result.references.tableReferences
            cr == result.references.columnReferences
        IN  /\ \A j \in 1..Len(tr) :
                 (/\ tr[j].table \notin TableNames
                  /\ toLowerCase(tr[j].table) \in TableNames
                  /\ NoAlias(tr[j].table)) =>
                    /\ Cardinality(At(1004, tr[j])) = 1
                    /\ \A i \in At(1004, tr[j]) :
                         /\ Last[i].severity = Warning
                         /\ Last[i].message =
                               <<"Table '">> \o tr[j].table
                                 \o <<"' does not exist in database '">>
                                 \o schema.name \o <<"'.">>
            /\ \A j \in 1..Len(tr) : ResolvedTable(tr[j].table) =>
                 LET t == SchemaTableOf(tr[j].table)
                     columnNames == {t.columns[k].name : k \in 1..Len(t.columns)}
                 IN  \A c \in 1..Len(cr) :
                       (/\ cr[c].table = tr[j].table
                        /\ cr[c].column \notin columnNames
                        /\ toLowerCase(cr[c].column) \in columnNames
                        /\ NoAlias(cr[c].column)) =>
                          /\ At(1005, cr[c]) # {}
                          /\ \A i \in At(1005, cr[c]) :
                               /\ Last[i].severity = Warning
                               /\ Last[i].message =
                                     <<"Column '">> \o cr[c].column
                                       \o <<"' does not exist in table '">>
                                       \o t.name \o <<"'.">>

\* SELECT ... FROM Ab, ab WHERE Ab.Id = 1 AND ab.Id = 1: Ab is reported as a
\* missing table and the Id of ab as a missing column, and neither ab nor id
\* is suggested.
C22_Witness ==
    /\ Processed
    /\ schema.defined
    /\ Len(result.references.tableReferences) = 2
    /\ result.references.tableReferences[1].table = Ab
    /\ result.references.tableReferences[2].table = ab
    /\ result.references.columnReferences[2].column = Id
    /\ Len(Last) = 2
    /\ Last[1].code = 1004
    /\ Last[1].message =
         <<"Table '", "A", "b", "' does not exist in database '", "t", "e", "s", "t", "'.">>
    /\ Last[2].code = 1005
    /\ Last[2].message =
         <<"Column '", "I", "d", "' does not exist in table '", "a", "b", "'.">>

====
